---- MODULE Spec2Model ----
(***************************************************************************)
(* A state-machine model of App (src/App.tsx): the image edit session      *)
(* (prompt, in-flight edit and upload requests, the edit history exposed   *)
(* by useImageHistory), the multi-view request, and the chat session      *)
(* (conversation log, response streams, the split-and-classify step run    *)
(* on every chunk).                                                        *)
(*                                                                         *)
(* Text is a sequence of one-character strings.  Images are small          *)
(* integers (the content of an ImageFile); 0 stands for null.              *)
(***************************************************************************)
EXTENDS Integers, Sequences, FiniteSets, TLC

VARIABLES
    hist,             \* useImageHistory state: [entries, original]
    isLoading,        \* useState(false), line 82
    error,            \* useState(""), line 84
    prompt,           \* useState(""), line 85
    clearMaskSignal,  \* useState(0), line 89
    editTasks,        \* handleGenerate calls awaiting geminiService.editImage
    uploadTasks,      \* handleImageUpload calls awaiting fileToDataURL
    chatMessages,     \* useState<ChatMessage[]>([]), line 94
    isThinking,       \* useState(false), line 95
    chatSessionRef,   \* useRef<Chat | null>(null), line 97 (0 is null)
    streams,          \* handleChatSubmit calls awaiting the stream or a chunk
    multiViewImages,  \* useState<ImageFile[]>([]), line 100
    multiViewTasks,   \* handleGenerateMultiView calls awaiting generateMultiView
    img0,             \* history variable: the argument of the last reset
    lastOp            \* history variable: the handler step taken last

vars == <<hist, isLoading, error, prompt, clearMaskSignal, editTasks,
          uploadTasks, chatMessages, isThinking, chatSessionRef, streams,
          multiViewImages, multiViewTasks, img0, lastOp>>

editVars == <<hist, isLoading, error, prompt, clearMaskSignal, editTasks,
              uploadTasks, img0>>

chatVars == <<chatMessages, isThinking, chatSessionRef, streams>>

multiViewVars == <<multiViewImages, multiViewTasks>>

(***************************************************************************)
(* Bounds of the model.                                                    *)
(***************************************************************************)
MaxHistory == 3
MaxInFlight == 2
MaxClear == 2
MaxSessions == 2
MaxStreams == 2
MaxLog == 4
MaxChatChunks == 1
MaxSegChunks == 5
SegLogCap == 3

NoImage == 0
\* The images files hold and editImage returns.
ImageIds == {1, 2}

(***************************************************************************)
(* Characters and text.                                                    *)
(***************************************************************************)
\* The backtick, written "^": the module's strings hold no backtick.
BT == "^"
NL == "\n"
WC == "a"
SP == " "

Fence == <<BT, BT, BT>>

\* \w of the inner pattern, restricted to the alphabet of the model.
IsWordChar(c) == c = WC

\* Whether "```" stands at position i of t.
IsFenceAt(t, i) ==
    /\ i >= 1
    /\ i + 2 <= Len(t)
    /\ t[i] = BT /\ t[i + 1] = BT /\ t[i + 2] = BT

\* The least position >= i where "```" stands, or 0.
FindFence(t, i) ==
    LET S == {j \in i..Len(t) : IsFenceAt(t, j)}
    IN  IF S = {} THEN 0 ELSE CHOOSE j \in S : \A k \in S : j <= k

\* Mutant of OuterMatch: a greedy body, closing at the last fence.
OuterMatchGreedy(t, p) ==
    LET s == FindFence(t, p)
        C == IF s = 0 THEN {} ELSE {j \in (s + 3)..Len(t) : IsFenceAt(t, j)}
    IN  IF C = {} THEN <<0, 0>>
        ELSE <<s, (CHOOSE j \in C : \A k \in C : k <= j) + 2>>

\* The leftmost match of /```[\s\S]*?```/ in t at or after p, as
\* <<first, last>> positions, or <<0, 0>>: the body is lazy, so the match
\* closes at the first fence that starts after the opening one.
OuterMatch(t, p) ==
    LET s == FindFence(t, p)
        c == IF s = 0 THEN 0 ELSE FindFence(t, s + 3)
    IN  IF c = 0 THEN <<0, 0>> ELSE <<s, c + 2>>

RECURSIVE SplitFrom(_, _)
\* responseText.split(/(```[\s\S]*?```)/g) from position p on: the text
\* before each match, the match itself (the capture group), and at the end
\* the rest of the text, empty or not.
SplitFrom(t, p) ==
    LET m == OuterMatch(t, p)
    IN  IF m[1] = 0 THEN <<SubSeq(t, p, Len(t))>>
        ELSE <<SubSeq(t, p, m[1] - 1), SubSeq(t, m[1], m[2])>>
                 \o SplitFrom(t, m[2] + 1)

Split(t) == SplitFrom(t, 1)

StartsWithFence(part) == IsFenceAt(part, 1)

\* The position after the run of word characters that starts at j.
RECURSIVE SkipWord(_, _)
SkipWord(t, j) ==
    IF j <= Len(t) /\ IsWordChar(t[j]) THEN SkipWord(t, j + 1) ELSE j

\* Mutant of InnerMatchAt: the end of the text closes the body too.
InnerMatchAtOpen(part, i) ==
    LET k == SkipWord(part, i + 3)
        ok == IsFenceAt(part, i) /\ k < Len(part) /\ part[k] = NL
        c == IF ok THEN FindFence(part, k + 2) ELSE 0
        e == IF c = 0 THEN Len(part) ELSE c - 1
    IN  IF ok THEN <<SubSeq(part, i + 3, k - 1), SubSeq(part, k + 1, e)>>
        ELSE <<>>

\* part.match(/```(\w*)\n([\s\S]+?)```/) tried at position i: <<lang, code>>
\* or <<>>.  \w* is greedy and the newline is no word character, so the
\* newline has to follow the whole run; the lazy body, of one character at
\* least, ends at the first fence from k + 2 on.
InnerMatchAt(part, i) ==
    LET k == SkipWord(part, i + 3)
        c == IF k <= Len(part) /\ part[k] = NL THEN FindFence(part, k + 2) ELSE 0
    IN  IF IsFenceAt(part, i) /\ c # 0
        THEN <<SubSeq(part, i + 3, k - 1), SubSeq(part, k + 1, c - 1)>>
        ELSE <<>>

\* The match is not anchored: the first position where it succeeds.
InnerMatch(part) ==
    LET S == {i \in 1..Len(part) : InnerMatchAt(part, i) # <<>>}
    IN  IF S = {} THEN <<>>
        ELSE InnerMatchAt(part, CHOOSE i \in S : \A k \in S : i <= k)

RECURSIVE SplitLinesFrom(_, _, _)
\* part.split('\n'): cur is the line being read from position p on.
SplitLinesFrom(t, p, cur) ==
    IF p > Len(t) THEN <<cur>>
    ELSE IF t[p] = NL THEN <<cur>> \o SplitLinesFrom(t, p + 1, <<>>)
    ELSE SplitLinesFrom(t, p + 1, Append(cur, t[p]))

SplitLines(t) == SplitLinesFrom(t, 1, <<>>)

CodeBlock(lang, code) ==
    [kind |-> "Code", lang |-> lang, text |-> code, lines |-> <<>>]

PreBlock(part) ==
    [kind |-> "Pre", lang |-> <<>>, text |-> part, lines |-> <<>>]

ProseBlock(part) ==
    [kind |-> "Prose", lang |-> <<>>, text |-> <<>>, lines |-> SplitLines(part)]

\* The callback of parts.map: one rendered block per part.
Classify(part) ==
    IF StartsWithFence(part)
    THEN LET m == InnerMatch(part)
         IN  IF m = <<>> THEN PreBlock(part) ELSE CodeBlock(m[1], m[2])
    ELSE ProseBlock(part)

\* The split-and-classify step run on the accumulated text.
Segment(t) ==
    LET parts == Split(t)
    IN  [i \in 1..Len(parts) |-> Classify(parts[i])]

(***************************************************************************)
(* useImageHistory (./hooks/useImageHistory, not part of the sources at    *)
(* hand): an ordered list of images and the original, with reset, push     *)
(* and undo.                                                               *)
(***************************************************************************)
EmptyHistory == [entries |-> <<>>, original |-> NoImage]

reset(h, img) == [entries |-> <<img>>, original |-> img]

push(h, img) == [h EXCEPT !.entries = Append(h.entries, img)]

canUndo(h) == Len(h.entries) > 1

\* Mutant of undo: pops whenever there is an entry.
undoUnguarded(h) ==
    IF Len(h.entries) > 0
    THEN [h EXCEPT !.entries = SubSeq(h.entries, 1, Len(h.entries) - 1)]
    ELSE h

undo(h) ==
    IF canUndo(h)
    THEN [h EXCEPT !.entries = SubSeq(h.entries, 1, Len(h.entries) - 1)]
    ELSE h

currentImage(h) ==
    IF h.entries = <<>> THEN NoImage ELSE h.entries[Len(h.entries)]

originalImage(h) == h.original

isImageLoaded(h) == Len(h.entries) > 0

(***************************************************************************)
(* Messages, prompts and files of the edit session.                        *)
(***************************************************************************)
InvalidFileMsg == "Please upload a valid image file."
UploadFailedMsg == "Could not process the uploaded file."
NoImageMsg == "Please upload an image first to apply an edit."
UnknownEditMsg == "An unknown error occurred during editing."
ServiceEditMsg == "editImage: request failed"

\* err.message of a rejected editImage call: empty, or the text of the service.
EditErrMessages == {"", ServiceEditMsg}

\* Two of the six prompts of the quick actions, line 154.
MagicPrompts == {"Apply a cinematic color grade.",
                 "Convert to a moody black and white."}

\* What the prompt field may be set to by typing.
TypedPrompts == {"", " ", "make the sky blue"}

\* prompt.trim() === "".
IsBlank(p) == p \in {"", " "}

\* An uploaded File: whether its type starts with image/, whether the
\* FileReader reads it, and the image it holds.
Files ==
    {[isImage |-> FALSE, readable |-> TRUE, img |-> NoImage],
     [isImage |-> TRUE, readable |-> FALSE, img |-> NoImage]}
    \cup {[isImage |-> TRUE, readable |-> TRUE, img |-> g] : g \in ImageIds}

Op(name, arg) == [op |-> name, arg |-> arg]

Note(name, arg) == lastOp' = Op(name, arg)

RemoveAt(seq, i) == SubSeq(seq, 1, i - 1) \o SubSeq(seq, i + 1, Len(seq))

(***************************************************************************)
(* The edit session.                                                       *)
(***************************************************************************)
\* The requests awaiting a collaborator.
InFlight == Len(editTasks) + Len(uploadTasks) + Len(multiViewTasks)

\* The condition of the effect of lines 152-159, run after a render in
\* which prompt or currentImage changed.
AutoGenerateFires(p, cur) ==
    /\ p # ""
    /\ cur # NoImage
    /\ chatSessionRef # 0
    /\ p \in MagicPrompts

\* The effect of lines 152-159 after a render with prompt p and history h,
\* where changed says whether prompt or currentImage changed and loading is
\* isLoading of that render: handleGenerate runs up to its await.  Of the
\* request handed to editImage a pending call keeps the base image.
AutoGenerate(p, h, changed, loading) ==
    IF changed /\ AutoGenerateFires(p, currentImage(h))
    THEN /\ InFlight < MaxInFlight
         /\ editTasks' = Append(editTasks, [base |-> currentImage(h)])
         /\ isLoading' = TRUE
    ELSE /\ editTasks' = editTasks
         /\ isLoading' = loading

\* setPrompt from the prompt field of the Sidebar.
SetPrompt(p) ==
    /\ p \in TypedPrompts
    /\ prompt' = p
    /\ AutoGenerate(p, hist, p # prompt, isLoading)
    /\ Note("setPrompt", 0)
    /\ UNCHANGED <<hist, error, clearMaskSignal, uploadTasks, img0>>
    /\ UNCHANGED chatVars
    /\ UNCHANGED multiViewVars

\* handleMagicEdit, lines 147-150, and the effect its setPrompt triggers.
handleMagicEdit(m) ==
    /\ m \in MagicPrompts
    /\ prompt' = m
    /\ AutoGenerate(m, hist, m # prompt, isLoading)
    /\ Note("handleMagicEdit", 0)
    /\ UNCHANGED <<hist, error, clearMaskSignal, uploadTasks, img0>>
    /\ UNCHANGED chatVars
    /\ UNCHANGED multiViewVars

\* handleGenerate, lines 127-136, called from the Generate control: up to
\* the await of editImage.
handleGenerate ==
    /\ IF IsBlank(prompt)
       THEN UNCHANGED <<error, isLoading, editTasks>>
       ELSE IF currentImage(hist) = NoImage
       THEN /\ error' = NoImageMsg
            /\ UNCHANGED <<isLoading, editTasks>>
       ELSE /\ InFlight < MaxInFlight
            /\ isLoading' = TRUE
            /\ editTasks' = Append(editTasks, [base |-> currentImage(hist)])
            /\ UNCHANGED error
    /\ Note("handleGenerate", 0)
    /\ UNCHANGED <<hist, prompt, clearMaskSignal, uploadTasks, img0>>
    /\ UNCHANGED chatVars
    /\ UNCHANGED multiViewVars

\* Mutant of EditDone: the clear-mask signal is left as it is.
EditDoneKeepsMask(i, img) ==
    /\ i \in 1..Len(editTasks)
    /\ img \in ImageIds
    /\ Len(hist.entries) < MaxHistory
    /\ clearMaskSignal < MaxClear
    /\ hist' = push(hist, img)
    /\ prompt' = ""
    /\ clearMaskSignal' = clearMaskSignal
    /\ isLoading' = FALSE
    /\ editTasks' = RemoveAt(editTasks, i)
    /\ Note("editDone", img)
    /\ UNCHANGED <<error, uploadTasks, img0>>
    /\ UNCHANGED chatVars
    /\ UNCHANGED multiViewVars

\* editImage resolves with image img for the i-th pending call, lines
\* 137-139 and 143.  The updates are batched into one render, in which
\* prompt is "", so the effect of lines 152-159 does not call handleGenerate.
EditDone(i, img) ==
    /\ i \in 1..Len(editTasks)
    /\ img \in ImageIds
    /\ Len(hist.entries) < MaxHistory
    /\ clearMaskSignal < MaxClear
    /\ hist' = push(hist, img)
    /\ prompt' = ""
    /\ clearMaskSignal' = clearMaskSignal + 1
    /\ isLoading' = FALSE
    /\ editTasks' = RemoveAt(editTasks, i)
    /\ Note("editDone", img)
    /\ UNCHANGED <<error, uploadTasks, img0>>
    /\ UNCHANGED chatVars
    /\ UNCHANGED multiViewVars

\* Mutant of EditFails: the finally of line 143 is missing.
EditFailsKeepsLoading(i, msg) ==
    /\ i \in 1..Len(editTasks)
    /\ msg \in EditErrMessages
    /\ error' = IF msg = "" THEN UnknownEditMsg ELSE msg
    /\ isLoading' = isLoading
    /\ editTasks' = RemoveAt(editTasks, i)
    /\ Note("editFails", 0)
    /\ UNCHANGED <<hist, prompt, clearMaskSignal, uploadTasks, img0>>
    /\ UNCHANGED chatVars
    /\ UNCHANGED multiViewVars

\* editImage rejects for the i-th pending call, lines 140-144.
EditFails(i, msg) ==
    /\ i \in 1..Len(editTasks)
    /\ msg \in EditErrMessages
    /\ error' = IF msg = "" THEN UnknownEditMsg ELSE msg
    /\ isLoading' = FALSE
    /\ editTasks' = RemoveAt(editTasks, i)
    /\ Note("editFails", 0)
    /\ UNCHANGED <<hist, prompt, clearMaskSignal, uploadTasks, img0>>
    /\ UNCHANGED chatVars
    /\ UNCHANGED multiViewVars

\* Mutant of handleImageUpload: the loading flag is set before the type of
\* the file is looked at.
handleImageUploadLateCheck(file) ==
    /\ file \in Files
    /\ IF ~file.isImage
       THEN /\ error' = InvalidFileMsg
            /\ isLoading' = TRUE
            /\ UNCHANGED uploadTasks
       ELSE /\ InFlight < MaxInFlight
            /\ isLoading' = TRUE
            /\ uploadTasks' = Append(uploadTasks, file)
            /\ UNCHANGED error
    /\ Note("handleImageUpload", IF file.isImage THEN 1 ELSE 0)
    /\ UNCHANGED <<hist, prompt, clearMaskSignal, editTasks, img0>>
    /\ UNCHANGED chatVars
    /\ UNCHANGED multiViewVars

\* handleImageUpload, lines 109-117: up to the await of fileToDataURL.  The
\* step is noted with 1 for a file of an image type and 0 for another file.
handleImageUpload(file) ==
    /\ file \in Files
    /\ IF ~file.isImage
       THEN /\ error' = InvalidFileMsg
            /\ UNCHANGED <<isLoading, uploadTasks>>
       ELSE /\ InFlight < MaxInFlight
            /\ isLoading' = TRUE
            /\ uploadTasks' = Append(uploadTasks, file)
            /\ UNCHANGED error
    /\ Note("handleImageUpload", IF file.isImage THEN 1 ELSE 0)
    /\ UNCHANGED <<hist, prompt, clearMaskSignal, editTasks, img0>>
    /\ UNCHANGED chatVars
    /\ UNCHANGED multiViewVars

\* Mutant of UploadDone: the new image is pushed instead of reset.
UploadDonePush(i) ==
    /\ i \in 1..Len(uploadTasks)
    /\ uploadTasks[i].readable
    /\ Len(hist.entries) < MaxHistory
    /\ hist' = push(hist, uploadTasks[i].img)
    /\ img0' = uploadTasks[i].img
    /\ uploadTasks' = RemoveAt(uploadTasks, i)
    /\ AutoGenerate(prompt, hist', TRUE, FALSE)
    /\ Note("uploadDone", uploadTasks[i].img)
    /\ UNCHANGED <<error, prompt, clearMaskSignal>>
    /\ UNCHANGED chatVars
    /\ UNCHANGED multiViewVars

\* fileToDataURL resolves for the i-th pending upload, lines 117-119 and
\* 123, then the effect of lines 152-159 for the new currentImage.
UploadDone(i) ==
    /\ i \in 1..Len(uploadTasks)
    /\ uploadTasks[i].readable
    /\ hist' = reset(hist, uploadTasks[i].img)
    /\ img0' = uploadTasks[i].img
    /\ uploadTasks' = RemoveAt(uploadTasks, i)
    /\ AutoGenerate(prompt, hist', TRUE, FALSE)
    /\ Note("uploadDone", uploadTasks[i].img)
    /\ UNCHANGED <<error, prompt, clearMaskSignal>>
    /\ UNCHANGED chatVars
    /\ UNCHANGED multiViewVars

\* fileToDataURL rejects for the i-th pending upload, lines 120-124.
UploadFails(i) ==
    /\ i \in 1..Len(uploadTasks)
    /\ ~uploadTasks[i].readable
    /\ error' = UploadFailedMsg
    /\ isLoading' = FALSE
    /\ uploadTasks' = RemoveAt(uploadTasks, i)
    /\ Note("uploadFails", 0)
    /\ UNCHANGED <<hist, prompt, clearMaskSignal, editTasks, img0>>
    /\ UNCHANGED chatVars
    /\ UNCHANGED multiViewVars

\* onUndo={undo}, line 291, then the effect of lines 152-159 when
\* currentImage changed.  lastOp keeps the length of the history before.
OnUndo ==
    /\ hist' = undo(hist)
    /\ AutoGenerate(prompt, hist', hist' # hist, isLoading)
    /\ Note("undo", Len(hist.entries))
    /\ UNCHANGED <<error, prompt, clearMaskSignal, uploadTasks, img0>>
    /\ UNCHANGED chatVars
    /\ UNCHANGED multiViewVars

\* onClearMask, line 291.
OnClearMask ==
    /\ clearMaskSignal < MaxClear
    /\ clearMaskSignal' = clearMaskSignal + 1
    /\ Note("clearMask", 0)
    /\ UNCHANGED <<hist, isLoading, error, prompt, editTasks, uploadTasks, img0>>
    /\ UNCHANGED chatVars
    /\ UNCHANGED multiViewVars

\* onDismiss of the ErrorToast, lines 34 and 305.
DismissError ==
    /\ error # ""
    /\ error' = ""
    /\ Note("dismissError", 0)
    /\ UNCHANGED <<hist, isLoading, prompt, clearMaskSignal, editTasks,
                   uploadTasks, img0>>
    /\ UNCHANGED chatVars
    /\ UNCHANGED multiViewVars

(***************************************************************************)
(* The multi-view request.                                                 *)
(***************************************************************************)
MultiViewFailedMsg == "Failed to generate multi-view images."
ServiceMultiViewMsg == "generateMultiView: request failed"

\* err.message of a failed generateMultiView: empty, or the text of the
\* service.
MultiViewErrMessages == {"", ServiceMultiViewMsg}

\* The lists generateMultiView may resolve with: four images, in the order
\* the service gives them.
MultiViewResults == << <<1, 2, 2, 1>>, <<2, 1, 1, 2>> >>

\* handleGenerateMultiView, lines 172-177: up to the await of
\* generateMultiView.  Without an image the handler returns.
handleGenerateMultiView ==
    /\ IF currentImage(hist) = NoImage
       THEN UNCHANGED <<isLoading, multiViewTasks>>
       ELSE /\ InFlight < MaxInFlight
            /\ isLoading' = TRUE
            /\ multiViewTasks' = Append(multiViewTasks, [base |-> currentImage(hist)])
    /\ Note("handleGenerateMultiView", 0)
    /\ UNCHANGED <<hist, error, prompt, clearMaskSignal, editTasks, uploadTasks,
                   multiViewImages, img0>>
    /\ UNCHANGED chatVars

\* Mutant of MultiViewDone: the first view is pushed as an edit.
MultiViewDonePushes(i, k) ==
    /\ i \in 1..Len(multiViewTasks)
    /\ k \in DOMAIN MultiViewResults
    /\ Len(hist.entries) < MaxHistory
    /\ multiViewImages' = MultiViewResults[k]
    /\ hist' = push(hist, MultiViewResults[k][1])
    /\ isLoading' = FALSE
    /\ multiViewTasks' = RemoveAt(multiViewTasks, i)
    /\ Note("multiViewDone", k)
    /\ UNCHANGED <<error, prompt, clearMaskSignal, editTasks, uploadTasks, img0>>
    /\ UNCHANGED chatVars

\* generateMultiView resolves with the k-th list for the i-th pending call,
\* lines 178 and 182.  Neither prompt nor currentImage changes, so the
\* effect of lines 152-159 does not run.
MultiViewDone(i, k) ==
    /\ i \in 1..Len(multiViewTasks)
    /\ k \in DOMAIN MultiViewResults
    /\ multiViewImages' = MultiViewResults[k]
    /\ isLoading' = FALSE
    /\ multiViewTasks' = RemoveAt(multiViewTasks, i)
    /\ Note("multiViewDone", k)
    /\ UNCHANGED <<hist, error, prompt, clearMaskSignal, editTasks, uploadTasks,
                   img0>>
    /\ UNCHANGED chatVars

\* generateMultiView rejects for the i-th pending call, lines 179-182.
MultiViewFails(i, msg) ==
    /\ i \in 1..Len(multiViewTasks)
    /\ msg \in MultiViewErrMessages
    /\ error' = IF msg = "" THEN MultiViewFailedMsg ELSE msg
    /\ isLoading' = FALSE
    /\ multiViewTasks' = RemoveAt(multiViewTasks, i)
    /\ Note("multiViewFails", 0)
    /\ UNCHANGED <<hist, prompt, clearMaskSignal, editTasks, uploadTasks,
                   multiViewImages, img0>>
    /\ UNCHANGED chatVars

\* onClose of the MultiViewModal, line 306; the modal is rendered while the
\* list is not empty.
CloseMultiView ==
    /\ multiViewImages # <<>>
    /\ multiViewImages' = <<>>
    /\ Note("closeMultiView", 0)
    /\ UNCHANGED <<hist, isLoading, error, prompt, clearMaskSignal, editTasks,
                   uploadTasks, multiViewTasks, img0>>
    /\ UNCHANGED chatVars

(***************************************************************************)
(* The chat session.                                                       *)
(***************************************************************************)
ChatFailedMsg == "An error occurred in chat."
ServiceChatMsg == "sendChatMessage: request failed"

\* err.message of a failed stream: empty, or the text of the service.
ChatErrMessages == {"", ServiceChatMsg}

\* The attachment of a submission: none, an image, another file.
Attachments == {"none", "image", "file"}

\* The attachments of the runs that explore the sessions.
ChatAttachments == {"file"}

\* The rejections of the runs that explore the sessions.
ChatRejections == {ServiceChatMsg}

\* A ChatMessage: its role and its renderedContent, which is the welcome
\* text, the user's message with its attachment, the empty string of the
\* placeholder, the blocks of a response, or the error paragraph.
Entry(role, kind, att, blocks) ==
    [role |-> role, kind |-> kind, att |-> att, blocks |-> blocks]

WelcomeEntry == Entry("model", "welcome", "none", <<>>)

UserEntry(att) == Entry("user", "message", att, <<>>)

PlaceholderEntry == Entry("model", "empty", "none", <<>>)

ErrorEntry == Entry("model", "error", "none", <<>>)

\* { ...last, renderedContent: <div>{rendered}</div> }, line 242.
Rendered(last, blocks) == Entry(last.role, "blocks", "none", blocks)

\* The updater of lines 240-244.
ReplaceLast(msgs, blocks) ==
    [msgs EXCEPT ![Len(msgs)] = Rendered(msgs[Len(msgs)], blocks)]

\* The chunks a stream may deliver in the runs that explore the text.
SegChunks == {<<>>, Fence, <<BT>>, <<NL>>, <<WC>>, <<SP>>}

\* The chunks a stream may deliver in the runs that explore the sessions.
ChatChunks == {<<WC>>}

\* The chunks the pending submissions have taken so far.
RECURSIVE ChunksTaken(_)
ChunksTaken(ss) == IF ss = <<>> THEN 0 ELSE ss[1].n + ChunksTaken(Tail(ss))

\* startNewChat, lines 187-191.  The log is replaced, so the pending
\* submissions have no placeholder in it.
startNewChat ==
    /\ chatSessionRef < MaxSessions
    /\ chatSessionRef' = chatSessionRef + 1
    /\ chatMessages' = <<WelcomeEntry>>
    /\ streams' = [i \in DOMAIN streams |-> [streams[i] EXCEPT !.slot = 0]]
    /\ Note("startNewChat", chatSessionRef + 1)
    /\ UNCHANGED <<isThinking, error>>
    /\ UNCHANGED <<hist, isLoading, prompt, clearMaskSignal, editTasks,
                   uploadTasks, img0>>
    /\ UNCHANGED multiViewVars

\* handleChatSubmit, lines 205-221: up to the await of sendChatMessage.  A
\* pending submission keeps the session it was sent to, its position in the
\* handler, responseText, and three history fields: n counts the chunks it
\* has taken, chunks lists them, slot is the index of its placeholder entry
\* in the log (0 while the log holds none).
handleChatSubmit(att, maxStreams, logCap) ==
    /\ att \in Attachments
    /\ IF chatSessionRef = 0
       THEN UNCHANGED <<chatMessages, isThinking, streams>>
       ELSE /\ Len(streams) < maxStreams
            /\ Len(chatMessages) < logCap
            /\ chatMessages' = Append(chatMessages, UserEntry(att))
            /\ isThinking' = TRUE
            /\ streams' = Append(streams,
                                 [session |-> chatSessionRef, phase |-> "opening",
                                  responseText |-> <<>>, n |-> 0,
                                  slot |-> 0, chunks |-> <<>>])
    /\ Note("handleChatSubmit", chatSessionRef)
    /\ UNCHANGED <<chatSessionRef, error>>
    /\ UNCHANGED <<hist, isLoading, prompt, clearMaskSignal, editTasks,
                   uploadTasks, img0>>
    /\ UNCHANGED multiViewVars

\* sendChatMessage resolves with the stream of the i-th submission, lines
\* 221-225: the placeholder entry is appended.
StreamOpens(i, logCap) ==
    /\ i \in 1..Len(streams)
    /\ streams[i].phase = "opening"
    /\ Len(chatMessages) < logCap
    /\ chatMessages' = Append(chatMessages, PlaceholderEntry)
    /\ streams' = [streams EXCEPT ![i].phase = "streaming",
                                  ![i].slot = Len(chatMessages) + 1]
    /\ Note("streamOpens", streams[i].session)
    /\ UNCHANGED <<chatSessionRef, isThinking, error>>
    /\ UNCHANGED <<hist, isLoading, prompt, clearMaskSignal, editTasks,
                   uploadTasks, img0>>
    /\ UNCHANGED multiViewVars

\* Mutant of ChunkArrives: the chunk replaces the text received so far.
ChunkArrivesNoAccumulate(i, c, maxChunks) ==
    /\ i \in 1..Len(streams)
    /\ streams[i].phase = "streaming"
    /\ ChunksTaken(streams) < maxChunks
    /\ LET text == c
       IN  /\ streams' = [streams EXCEPT ![i].responseText = text,
                                         ![i].n = streams[i].n + 1,
                                         ![i].chunks = Append(streams[i].chunks, c)]
           /\ chatMessages' = ReplaceLast(chatMessages, Segment(text))
    /\ Note("chunk", streams[i].session)
    /\ UNCHANGED <<chatSessionRef, isThinking, error>>
    /\ UNCHANGED <<hist, isLoading, prompt, clearMaskSignal, editTasks,
                   uploadTasks, img0>>
    /\ UNCHANGED multiViewVars

\* The stream of the i-th submission delivers chunk c, lines 227-245.
ChunkArrives(i, c, maxChunks) ==
    /\ i \in 1..Len(streams)
    /\ streams[i].phase = "streaming"
    /\ ChunksTaken(streams) < maxChunks
    /\ LET text == streams[i].responseText \o c
       IN  /\ streams' = [streams EXCEPT ![i].responseText = text,
                                         ![i].n = streams[i].n + 1,
                                         ![i].chunks = Append(streams[i].chunks, c)]
           /\ chatMessages' = ReplaceLast(chatMessages, Segment(text))
    /\ Note("chunk", streams[i].session)
    /\ UNCHANGED <<chatSessionRef, isThinking, error>>
    /\ UNCHANGED <<hist, isLoading, prompt, clearMaskSignal, editTasks,
                   uploadTasks, img0>>
    /\ UNCHANGED multiViewVars

\* The stream of the i-th submission ends, line 250.
StreamEnds(i) ==
    /\ i \in 1..Len(streams)
    /\ streams[i].phase = "streaming"
    /\ isThinking' = FALSE
    /\ streams' = RemoveAt(streams, i)
    /\ Note("streamEnds", streams[i].session)
    /\ UNCHANGED <<chatSessionRef, chatMessages, error>>
    /\ UNCHANGED <<hist, isLoading, prompt, clearMaskSignal, editTasks,
                   uploadTasks, img0>>
    /\ UNCHANGED multiViewVars

\* Mutant of StreamFails: the error paragraph replaces the last entry.
StreamFailsInPlace(i, msg, logCap) ==
    /\ i \in 1..Len(streams)
    /\ msg \in ChatErrMessages
    /\ error' = IF msg = "" THEN ChatFailedMsg ELSE msg
    /\ chatMessages' = [chatMessages EXCEPT ![Len(chatMessages)] = ErrorEntry]
    /\ isThinking' = FALSE
    /\ streams' = RemoveAt(streams, i)
    /\ Note(IF streams[i].phase = "opening" THEN "sendFails" ELSE "streamFails",
            streams[i].session)
    /\ UNCHANGED chatSessionRef
    /\ UNCHANGED <<hist, isLoading, prompt, clearMaskSignal, editTasks,
                   uploadTasks, img0>>
    /\ UNCHANGED multiViewVars

\* Mutant of StreamFails: the entry that holds the partial response is
\* dropped before the error entry is appended.
StreamFailsDropsPartial(i, msg, logCap) ==
    /\ i \in 1..Len(streams)
    /\ msg \in ChatErrMessages
    /\ Len(chatMessages) < logCap
    /\ error' = IF msg = "" THEN ChatFailedMsg ELSE msg
    /\ chatMessages' = Append(SubSeq(chatMessages, 1, Len(chatMessages) - 1),
                              ErrorEntry)
    /\ isThinking' = FALSE
    /\ streams' = RemoveAt(streams, i)
    /\ Note(IF streams[i].phase = "opening" THEN "sendFails" ELSE "streamFails",
            streams[i].session)
    /\ UNCHANGED chatSessionRef
    /\ UNCHANGED <<hist, isLoading, prompt, clearMaskSignal, editTasks,
                   uploadTasks, img0>>
    /\ UNCHANGED multiViewVars

\* sendChatMessage rejects, or the stream of the i-th submission throws
\* while iterated: the catch and finally of lines 246-251.
StreamFails(i, msg, logCap) ==
    /\ i \in 1..Len(streams)
    /\ msg \in ChatErrMessages
    /\ Len(chatMessages) < logCap
    /\ error' = IF msg = "" THEN ChatFailedMsg ELSE msg
    /\ chatMessages' = Append(chatMessages, ErrorEntry)
    /\ isThinking' = FALSE
    /\ streams' = RemoveAt(streams, i)
    /\ Note(IF streams[i].phase = "opening" THEN "sendFails" ELSE "streamFails",
            streams[i].session)
    /\ UNCHANGED chatSessionRef
    /\ UNCHANGED <<hist, isLoading, prompt, clearMaskSignal, editTasks,
                   uploadTasks, img0>>
    /\ UNCHANGED multiViewVars

(***************************************************************************)
(* Specifications.  Init is the state after the first render and its       *)
(* effects (lines 152-159: nothing, prompt is empty; lines 193-195:        *)
(* startNewChat).                                                          *)
(***************************************************************************)
Init ==
    /\ hist = EmptyHistory
    /\ isLoading = FALSE
    /\ error = ""
    /\ prompt = ""
    /\ clearMaskSignal = 0
    /\ editTasks = <<>>
    /\ uploadTasks = <<>>
    /\ chatMessages = <<WelcomeEntry>>
    /\ isThinking = FALSE
    /\ chatSessionRef = 1
    /\ streams = <<>>
    /\ multiViewImages = <<>>
    /\ multiViewTasks = <<>>
    /\ img0 = NoImage
    /\ lastOp = Op("mount", 0)

\* The edit session.
Next ==
    \/ \E p \in TypedPrompts : SetPrompt(p)
    \/ \E m \in MagicPrompts : handleMagicEdit(m)
    \/ handleGenerate
    \/ \E i \in 1..MaxInFlight, img \in ImageIds : EditDone(i, img)
    \/ \E i \in 1..MaxInFlight, msg \in EditErrMessages : EditFails(i, msg)
    \/ \E file \in Files : handleImageUpload(file)
    \/ \E i \in 1..MaxInFlight : UploadDone(i)
    \/ \E i \in 1..MaxInFlight : UploadFails(i)
    \/ OnUndo
    \/ OnClearMask
    \/ DismissError

Spec == Init /\ [][Next]_vars

\* The multi-view request, among uploads, edits and undo.
MultiViewNext ==
    \/ SetPrompt("make the sky blue")
    \/ handleGenerate
    \/ \E i \in 1..MaxInFlight, img \in ImageIds : EditDone(i, img)
    \/ \E file \in {f \in Files : f.isImage /\ f.readable} : handleImageUpload(file)
    \/ \E i \in 1..MaxInFlight : UploadDone(i)
    \/ OnUndo
    \/ handleGenerateMultiView
    \/ \E i \in 1..MaxInFlight, k \in DOMAIN MultiViewResults : MultiViewDone(i, k)
    \/ \E i \in 1..MaxInFlight : MultiViewFails(i, ServiceMultiViewMsg)
    \/ CloseMultiView

MultiViewSpec == Init /\ [][MultiViewNext]_vars

\* The chat session: overlapping submissions and new sessions.
ChatNext ==
    \/ startNewChat
    \/ \E att \in ChatAttachments : handleChatSubmit(att, MaxStreams, MaxLog)
    \/ \E i \in 1..MaxStreams : StreamOpens(i, MaxLog)
    \/ \E i \in 1..MaxStreams, c \in ChatChunks : ChunkArrives(i, c, MaxChatChunks)
    \/ \E i \in 1..MaxStreams : StreamEnds(i)
    \/ \E i \in 1..MaxStreams, msg \in ChatRejections : StreamFails(i, msg, MaxLog)

ChatSpec == Init /\ [][ChatNext]_vars

\* One response and the text it accumulates.
SegNext ==
    \/ handleChatSubmit("none", 1, SegLogCap)
    \/ StreamOpens(1, SegLogCap)
    \/ \E c \in SegChunks : ChunkArrives(1, c, MaxSegChunks)
    \/ StreamEnds(1)

SegSpec == Init /\ [][SegNext]_vars

(***************************************************************************)
(* Properties of the edit session, checked under Spec.                     *)
(***************************************************************************)
\* C1: at most one edit request is in flight at any time.
C1_AtMostOneEditInFlight == Len(editTasks) <= 1

\* C3: whenever no image is loaded, handleGenerate surfaces the validation
\* error, starts no request and leaves the history as it was.
C3_NoImageIsValidationError ==
    [][(lastOp'.op = "handleGenerate" /\ ~isImageLoaded(hist))
          => /\ error' = NoImageMsg
             /\ editTasks' = editTasks
             /\ hist' = hist]_vars

\* C4: when editImage fails, a failure message is surfaced, the history,
\* the prompt and the clear-mask signal are left as they were, and the
\* loading flag is released.
C4_EditFailureLeavesHistory ==
    [][lastOp'.op = "editFails"
          => /\ error' \in {UnknownEditMsg, ServiceEditMsg}
             /\ hist' = hist
             /\ prompt' = prompt
             /\ clearMaskSignal' = clearMaskSignal
             /\ isLoading' = FALSE]_vars

\* C4 witness: an edit has just failed on a loaded image, with the prompt
\* still in place.
C4_Witness ==
    /\ lastOp.op = "editFails"
    /\ isImageLoaded(hist)
    /\ ~IsBlank(prompt)
    /\ error = UnknownEditMsg
    /\ ~isLoading

\* C5: handleGenerate with a blank prompt surfaces an error to the user and
\* has no other effect.
C5_BlankPromptIsSurfaced ==
    [][(lastOp'.op = "handleGenerate" /\ IsBlank(prompt))
          => /\ error' # ""
             /\ editTasks' = editTasks
             /\ hist' = hist
             /\ prompt' = prompt
             /\ isLoading' = isLoading]_vars

\* C6: once an image was loaded by reset(img0), the history is non-empty,
\* original is entries[0] and img0, current is the last entry, canUndo
\* holds exactly when there is more than one entry, and after a push
\* current is the pushed image.
C6_HistoryInvariant ==
    /\ img0 # NoImage => isImageLoaded(hist)
    /\ isImageLoaded(hist) =>
          /\ originalImage(hist) = hist.entries[1]
          /\ originalImage(hist) = img0
          /\ currentImage(hist) = hist.entries[Len(hist.entries)]
          /\ canUndo(hist) <=> Len(hist.entries) > 1
    /\ lastOp.op = "editDone" => currentImage(hist) = lastOp.arg

\* C6 witness: two results were pushed after a reset, and current differs
\* from original.
C6_Witness ==
    /\ lastOp.op = "editDone"
    /\ Len(hist.entries) = 3
    /\ currentImage(hist) # originalImage(hist)

\* C7: undo with canUndo removes exactly the last entry, so repeating it
\* ends; when canUndo is false current is original and undo changes
\* nothing; undo never empties a loaded history.
C7_UndoToOriginal ==
    [][lastOp'.op = "undo"
          => /\ canUndo(hist) =>
                   hist'.entries = SubSeq(hist.entries, 1, Len(hist.entries) - 1)
             /\ ~canUndo(hist) => hist' = hist
             /\ isImageLoaded(hist) => isImageLoaded(hist')
             /\ (isImageLoaded(hist') /\ ~canUndo(hist'))
                   => currentImage(hist') = originalImage(hist')]_vars

\* C7 witness: an undo of a history of two entries has left the original
\* alone, which is current.
C7_Witness ==
    /\ lastOp = Op("undo", 2)
    /\ Len(hist.entries) = 1
    /\ ~canUndo(hist)
    /\ currentImage(hist) = originalImage(hist)

(***************************************************************************)
(* Properties of the chat session, checked under ChatSpec.                 *)
(***************************************************************************)
\* C2: a chunk of a stream started under an earlier session leaves the
\* conversation log of the current session as it is.
C2_StaleChunkIgnored ==
    [][(lastOp'.op = "chunk" /\ lastOp'.arg # chatSessionRef)
          => chatMessages' = chatMessages]_vars

\* C10, as claimed: a stream failure replaces the blocks of the last entry
\* by the error indicator and leaves the length of the log as it was.
C10_ErrorReplacesInPlace ==
    [][lastOp'.op = "streamFails"
          => /\ Len(chatMessages') = Len(chatMessages)
             /\ chatMessages'[Len(chatMessages')].kind = "error"]_vars

\* C10, amended: a stream failure keeps every entry of the log, appends
\* one model entry holding the error indicator, clears the thinking flag
\* and leaves the session handle set.
C10_ErrorAppended ==
    [][lastOp'.op = "streamFails"
          => /\ chatMessages' = Append(chatMessages, ErrorEntry)
             /\ error' # ""
             /\ isThinking' = FALSE
             /\ chatSessionRef' # 0]_vars

\* C10 witness: a stream has just failed after a chunk was rendered.
C10_Witness ==
    /\ lastOp.op = "streamFails"
    /\ Len(chatMessages) >= 2
    /\ chatMessages[Len(chatMessages)] = ErrorEntry
    /\ chatMessages[Len(chatMessages) - 1].kind = "blocks"
    /\ chatMessages[Len(chatMessages) - 1].blocks # <<>>

(***************************************************************************)
(* Properties of the split-and-classify step, checked under SegSpec.       *)
(***************************************************************************)
Prefix(t, k) == SubSeq(t, 1, k)

\* Whether every block of Segment(t) but the last is the block at the same
\* place of Segment(b).
NonFinalKept(t, b) ==
    LET bt == Segment(t)
        bb == Segment(b)
    IN  /\ Len(bt) - 1 <= Len(bb)
        /\ \A j \in 1..(Len(bt) - 1) : bt[j] = bb[j]

\* C8: for every text t and suffix s, the blocks of t other than the last
\* are the blocks of t + s at the same places.
C8_StableUnderExtension ==
    \A i \in 1..Len(streams) :
        \A k \in 0..Len(streams[i].responseText) :
            NonFinalKept(Prefix(streams[i].responseText, k),
                         streams[i].responseText)

\* C8 witness: a text whose prefix already had a Code block among three
\* blocks, and whose own last block differs from the one of the prefix.
C8_Witness ==
    \E i \in 1..Len(streams) :
        \E k \in 0..Len(streams[i].responseText) :
            LET bt == Segment(Prefix(streams[i].responseText, k))
                bb == Segment(streams[i].responseText)
            IN  /\ Len(bt) = 3
                /\ bt[2].kind = "Code"
                /\ Len(bb) = 3
                /\ bb[3] # bt[3]

RECURSIVE OpenFenceFrom(_, _)
\* The position of the fence of t, at or after p, that is opened and not
\* closed, fences pairing up from the left; 0 when there is none.
OpenFenceFrom(t, p) ==
    LET s == FindFence(t, p)
        c == IF s = 0 THEN 0 ELSE FindFence(t, s + 3)
    IN  IF s = 0 THEN 0
        ELSE IF c = 0 THEN s
        ELSE OpenFenceFrom(t, c + 3)

OpenFence(t) == OpenFenceFrom(t, 1)

CodeCount(blocks) == Cardinality({j \in 1..Len(blocks) : blocks[j].kind = "Code"})

RECURSIVE JoinLines(_)
JoinLines(ls) ==
    IF Len(ls) = 1 THEN ls[1] ELSE ls[1] \o <<NL>> \o JoinLines(Tail(ls))

\* The text a block that is no Code block shows.
ShownText(b) == IF b.kind = "Prose" THEN JoinLines(b.lines) ELSE b.text

IsSuffix(u, t) ==
    /\ Len(u) <= Len(t)
    /\ SubSeq(t, Len(t) - Len(u) + 1, Len(t)) = u

\* C9: in every accumulated text with a fence opened and not closed, the
\* text from that fence on is shown as it is in the last block, which is no
\* Code block, and the Code blocks are those of the text before the fence.
C9_OpenFenceIsNoCode ==
    \A i \in 1..Len(streams) :
        \A k \in 0..Len(streams[i].responseText) :
            LET t == Prefix(streams[i].responseText, k)
                o == OpenFence(t)
                bs == Segment(t)
            IN  o > 0 =>
                  /\ bs[Len(bs)].kind # "Code"
                  /\ IsSuffix(SubSeq(t, o, Len(t)), ShownText(bs[Len(bs)]))
                  /\ CodeCount(bs) = CodeCount(Segment(Prefix(t, o - 1)))

\* C9 witness: a fence that was open in an earlier accumulated text has
\* become a Code block once its closing fence arrived.
C9_Witness ==
    \E i \in 1..Len(streams) :
        \E k \in 0..Len(streams[i].responseText) :
            LET t == Prefix(streams[i].responseText, k)
            IN  /\ OpenFence(t) > 0
                /\ CodeCount(Segment(t)) = 0
                /\ CodeCount(Segment(streams[i].responseText)) = 1

(***************************************************************************)
(* Properties of a failing response, checked under ChatSpec.               *)
(***************************************************************************)
\* C11: when the stream of a response throws while it is iterated, every
\* entry of the log, the one that holds what the chunks received so far
\* rendered included, is kept as it is, one error entry is appended after
\* them, the thinking flag is cleared and the session handle stays set.
C11_PartialKeptOnStreamFailure ==
    [][lastOp'.op = "streamFails" =>
          /\ Len(chatMessages') = Len(chatMessages) + 1
          /\ \A j \in 1..Len(chatMessages) : chatMessages'[j] = chatMessages[j]
          /\ chatMessages'[Len(chatMessages')] = ErrorEntry
          /\ isThinking' = FALSE
          /\ chatSessionRef' = chatSessionRef
          /\ chatSessionRef' # 0]_vars

\* A response that rendered one chunk and then failed: its blocks are
\* followed by the error entry.
C11_Witness ==
    /\ lastOp.op = "streamFails"
    /\ Len(chatMessages) = 4
    /\ chatMessages[2].role = "user"
    /\ chatMessages[3] = Entry("model", "blocks", "none", Segment(<<WC>>))
    /\ chatMessages[4] = ErrorEntry
    /\ isThinking = FALSE
    /\ chatSessionRef # 0
    /\ streams = <<>>

(***************************************************************************)
(* Properties of the conversation log, checked under ChatSpec.             *)
(***************************************************************************)
\* C12: a chunk is written into the placeholder entry of the response it
\* belongs to, which is then the last entry of the log, and leaves every
\* other entry as it is; a step that is neither a chunk nor the start of a
\* new session leaves every entry already in the log as it is.
C12_ChunkWritesOwnPlaceholder ==
    [][/\ lastOp'.op = "chunk" =>
             \E i \in 1..Len(streams) :
                 /\ streams'[i].n = streams[i].n + 1
                 /\ streams[i].slot = Len(chatMessages)
                 /\ Len(chatMessages') = Len(chatMessages)
                 /\ \A j \in 1..Len(chatMessages) :
                        j # streams[i].slot => chatMessages'[j] = chatMessages[j]
       /\ lastOp'.op \notin {"chunk", "startNewChat"} =>
             /\ Len(chatMessages') >= Len(chatMessages)
             /\ \A j \in 1..Len(chatMessages) : chatMessages'[j] = chatMessages[j]
      ]_vars

(***************************************************************************)
(* Properties of a completed edit, checked under Spec.                     *)
(***************************************************************************)
\* C13: a request handed to editImage carries the image that is current
\* when it is submitted; a request that resolves pushes the one returned
\* image once (the entries grow by exactly that image, the original is
\* kept), clears the prompt and makes the clear-mask signal strictly
\* greater; no step makes the clear-mask signal smaller.
C13_EditSuccessPostconditions ==
    [][/\ Len(editTasks') > Len(editTasks) =>
             /\ Len(editTasks') = Len(editTasks) + 1
             /\ isImageLoaded(hist')
             /\ editTasks'[Len(editTasks')].base = currentImage(hist')
       /\ lastOp'.op = "editDone" =>
             /\ hist'.entries = Append(hist.entries, lastOp'.arg)
             /\ originalImage(hist') = originalImage(hist)
             /\ prompt' = ""
             /\ clearMaskSignal' > clearMaskSignal
       /\ clearMaskSignal' >= clearMaskSignal
      ]_vars

\* An edit of image 1 resolved with image 2, which is pushed once.
C13_Witness ==
    /\ lastOp = Op("editDone", 2)
    /\ hist.entries = <<1, 2>>
    /\ prompt = ""
    /\ clearMaskSignal = 1
    /\ editTasks = <<>>

(***************************************************************************)
(* Properties of the multi-view request, checked under MultiViewSpec.      *)
(***************************************************************************)
\* C14: no step of handleGenerateMultiView, be it the call, the result or
\* the failure of the collaborator, changes the edit history (entries,
\* original, current, canUndo); the list the collaborator returns is the
\* list handed to the display, in the same order.
C14_MultiViewLeavesHistory ==
    [][/\ lastOp'.op \in {"handleGenerateMultiView", "multiViewDone",
                          "multiViewFails"} =>
             /\ hist'.entries = hist.entries
             /\ originalImage(hist') = originalImage(hist)
             /\ currentImage(hist') = currentImage(hist)
             /\ canUndo(hist') = canUndo(hist)
       /\ lastOp'.op = "multiViewDone" =>
             multiViewImages' = MultiViewResults[lastOp'.arg]
      ]_vars

\* The views of an edited image are on display and the history still holds
\* the upload and the edit.
C14_Witness ==
    /\ lastOp = Op("multiViewDone", 2)
    /\ multiViewImages = <<2, 1, 1, 2>>
    /\ hist.entries = <<1, 2>>
    /\ multiViewTasks = <<>>

(***************************************************************************)
(* Properties of a rejected upload, checked under Spec.                    *)
(***************************************************************************)
\* C15: an upload of a file that is not an image shows the error of an
\* invalid file and changes nothing else: the history is not reset, the
\* loading flag is not set, no request is started.
C15_NonImageUploadRejected ==
    [][lastOp' = Op("handleImageUpload", 0) =>
          /\ error' = InvalidFileMsg
          /\ hist' = hist
          /\ isLoading' = isLoading
          /\ uploadTasks' = uploadTasks
          /\ editTasks' = editTasks
          /\ prompt' = prompt
          /\ clearMaskSignal' = clearMaskSignal]_vars

\* A file that is not an image is refused while the history holds an upload
\* and an edit, and nothing is loading.
C15_Witness ==
    /\ lastOp = Op("handleImageUpload", 0)
    /\ error = InvalidFileMsg
    /\ hist.entries = <<1, 2>>
    /\ originalImage(hist) = 1
    /\ isLoading = FALSE
    /\ uploadTasks = <<>>

(***************************************************************************)
(* Properties of the text of one response, checked under SegSpec.          *)
(***************************************************************************)
RECURSIVE Concat(_)
Concat(cs) == IF cs = <<>> THEN <<>> ELSE cs[1] \o Concat(Tail(cs))

C17_UserThenOwnModelEntry ==
    /\ \A j \in 1..(Len(chatMessages) - 1) :
           chatMessages[j].role = "user" => chatMessages[j + 1].role = "model"
    /\ \A i \in 1..Len(streams) :
           /\ streams[i].slot # 0 =>
                 /\ streams[i].slot \in 2..Len(chatMessages)
                 /\ chatMessages[streams[i].slot - 1].role = "user"
           /\ streams[i].n > 0 => streams[i].phase = "streaming"

\* C18: when the text a response has accumulated is of length zero, as
\* after a first chunk whose text is empty, the segmentation published for
\* it is the empty sequence of blocks.
C18_EmptyTextNoBlocks ==
    \A i \in 1..Len(streams) :
        (streams[i].n > 0 /\ streams[i].responseText = <<>>) =>
            /\ Segment(streams[i].responseText) = <<>>
            /\ chatMessages[streams[i].slot].blocks = <<>>

(***************************************************************************)
(* Properties of edits that overlap other events, checked under Spec.      *)
(***************************************************************************)
\* C19: whenever a request that resolved pushes its result, the base image
\* that request was sent with is the image that is current just before the
\* push.
C19_PushOntoItsBase ==
    [][lastOp'.op = "editDone" =>
          \E i \in 1..Len(editTasks) :
              /\ editTasks' = RemoveAt(editTasks, i)
              /\ editTasks[i].base = currentImage(hist)]_vars

\* C20: a quick action taken with an image loaded and a chat session
\* present starts exactly one edit request, a repeated one included, and an
\* edit request is started by no step other than a quick action or
\* Generate.
C20_QuickActionOneRequest ==
    [][/\ (lastOp'.op = "handleMagicEdit" /\ isImageLoaded(hist)
                                          /\ chatSessionRef # 0) =>
             Len(editTasks') = Len(editTasks) + 1
       /\ Len(editTasks') > Len(editTasks) =>
             lastOp'.op \in {"handleMagicEdit", "handleGenerate"}
      ]_vars

====
